---- MODULE Spec2Model ----
(***************************************************************************)
(* A model of the 2D vector path engine of path.go: the command/coordinate *)
(* buffers of a Path, its builder methods, the path algebra (Copy, Append, *)
(* Split, Translate, FlattenBeziers, Reverse) and the SVG path-data codec  *)
(* (ParseSVGPath, ToSVGPath).                                              *)
(*                                                                         *)
(* Coordinates are float64 in the source.  The model uses integers: every  *)
(* integer of small magnitude is exactly representable and sums of such    *)
(* values are exact, so on these inputs the tolerance comparison Equal is  *)
(* plain equality.                                                         *)
(*                                                                         *)
(* A Go slice is a window (array, offset, length) on a backing array whose *)
(* remaining room is the slice's capacity.  The model keeps the backing    *)
(* arrays in `mem`, so that two Paths that share storage are visible as    *)
(* such.                                                                   *)
(***************************************************************************)
EXTENDS Integers, Sequences, FiniteSets, TLC

\* ------------------------------------------------------------------ bounds
\* Largest coordinate a builder call is given.
MaxCoord == 1
\* Largest number of commands a Path of the storage model grows to.
MaxCmds == 5
\* Largest number of builder calls that make up an input path of SpecAlg.
MaxBuild == 4
\* Spare capacity (beyond what is needed) an allocation may come with.
MaxSpare == 1
\* Largest number of LineTo commands the flattener returns for one curve.
MaxFlat == 2
\* Largest length of an input text of the parser.
MaxText == 3
\* Iterations of the parser's loop the model follows beyond the text length.
MaxOver == 2

\* ------------------------------------------------------------ Command Model
MoveToCmd == 0
LineToCmd == 1
QuadToCmd == 2
CubeToCmd == 3
ArcToCmd == 4
CloseCmd == 5

PathCmds == {MoveToCmd, LineToCmd, QuadToCmd, CubeToCmd, ArcToCmd, CloseCmd}

\* PathCmd.Len: the number of numbers a command carries.
CmdLen(cmd) ==
    CASE cmd \in {MoveToCmd, LineToCmd, CloseCmd} -> 2
      [] cmd = QuadToCmd -> 4
      [] cmd = CubeToCmd -> 6
      [] cmd = ArcToCmd -> 7

\* PathCmd.String: the letter of a command.
CmdString(cmd) ==
    CASE cmd = MoveToCmd -> "M"
      [] cmd = LineToCmd -> "L"
      [] cmd = QuadToCmd -> "Q"
      [] cmd = CubeToCmd -> "C"
      [] cmd = ArcToCmd -> "A"
      [] cmd = CloseCmd -> "z"

\* Equal(a, b): |a - b| within the tolerance 1e-10; on integers, equality.
Equal(a, b) == a = b

\* ------------------------------------------------------- Path (as a value)
\* The Path struct, read through its slices: cmds, d and the cached start.
EmptyPath == [cmds |-> <<>>, d |-> <<>>, x0 |-> 0, y0 |-> 0]

IsEmpty(p) == Len(p.cmds) = 0

RECURSIVE SumLen(_)
\* The sum of Len over a command sequence.
SumLen(cmds) ==
    IF cmds = <<>> THEN 0 ELSE CmdLen(Head(cmds)) + SumLen(Tail(cmds))

\* Path.Pos: the end point of the last command.
Pos(p) ==
    IF Len(p.d) > 1 THEN <<p.d[Len(p.d) - 1], p.d[Len(p.d)]>> ELSE <<0, 0>>

\* Path.Start: the cached start of the current subpath.
Start(p) == <<p.x0, p.y0>>

BoolNum(b) == IF b THEN 1 ELSE 0

MoveTo(p, x, y) ==
    [cmds |-> Append(p.cmds, MoveToCmd), d |-> p.d \o <<x, y>>, x0 |-> x, y0 |-> y]

LineTo(p, x, y) ==
    [p EXCEPT !.cmds = Append(p.cmds, LineToCmd), !.d = p.d \o <<x, y>>]

QuadTo(p, x1, y1, x, y) ==
    [p EXCEPT !.cmds = Append(p.cmds, QuadToCmd), !.d = p.d \o <<x1, y1, x, y>>]

CubeTo(p, x1, y1, x2, y2, x, y) ==
    [p EXCEPT !.cmds = Append(p.cmds, CubeToCmd),
              !.d = p.d \o <<x1, y1, x2, y2, x, y>>]

ArcTo(p, rx, ry, rot, large, sweep, x, y) ==
    [p EXCEPT !.cmds = Append(p.cmds, ArcToCmd),
              !.d = p.d \o <<rx, ry, rot, BoolNum(large), BoolNum(sweep), x, y>>]

Close(p) ==
    [p EXCEPT !.cmds = Append(p.cmds, CloseCmd), !.d = p.d \o <<p.x0, p.y0>>]

Rect(p, x, y, w, h) ==
    Close(LineTo(LineTo(LineTo(MoveTo(p, x, y), x + w, y), x + w, y + h), x, y + h))

Ellipse(p, x, y, rx, ry) ==
    Close(ArcTo(ArcTo(MoveTo(p, x + rx, y), rx, ry, 0, FALSE, FALSE, x - rx, y),
                rx, ry, 0, FALSE, FALSE, x + rx, y))

\* ------------------------------------------------------------ Path Algebra
\* Path.Copy, read as a value: the same commands, numbers and cached start.
Copy(p) == [cmds |-> p.cmds, d |-> p.d, x0 |-> p.x0, y0 |-> p.y0]

\* Whether Append drops the leading MoveTo of q (it coincides with p's end).
AppendMerges(p, q) ==
    /\ Len(p.cmds) > 0
    /\ Len(q.cmds) > 0
    /\ q.cmds[1] = MoveToCmd
    /\ Equal(p.d[Len(p.d) - 1], q.d[1])
    /\ Equal(p.d[Len(p.d)], q.d[2])

\* What Path.Append leaves in its argument q.
AppendArg(p, q) ==
    IF AppendMerges(p, q)
        THEN [q EXCEPT !.cmds = Tail(q.cmds), !.d = SubSeq(q.d, 3, Len(q.d))]
        ELSE q

\* Path.Append: the receiver p after p.Append(q).
PathAppend(p, q) ==
    IF Len(q.cmds) = 0 THEN p
    ELSE LET q2 == AppendArg(p, q)
         IN [cmds |-> p.cmds \o q2.cmds, d |-> p.d \o q2.d, x0 |-> q2.x0, y0 |-> q2.y0]

\* The loop of Path.Split.  st holds the locals: ps (the windows found so far,
\* as zero-based half-open index ranges with the start point of each), closed,
\* i, j, icmd, jcmd, x0, y0.
SplitCut(st) ==
    [st EXCEPT !.ps = Append(st.ps, [icmd |-> st.icmd, jcmd |-> st.jcmd,
                                     i |-> st.i, j |-> st.j,
                                     x0 |-> st.x0, y0 |-> st.y0]),
               !.icmd = st.jcmd, !.i = st.j, !.closed = FALSE]

\* A Split that starts a new window at a MoveTo only, and not after a Close.
SplitHereAtMoveTo(st, cmd) == st.j > st.i /\ cmd = MoveToCmd

\* Split's test for starting a new window at the command cmd.
SplitHere(st, cmd) == (st.j > st.i /\ cmd = MoveToCmd) \/ st.closed

SplitStep(p, st) ==
    LET cmd == p.cmds[st.jcmd + 1]
        s1 == IF SplitHere(st, cmd) THEN SplitCut(st) ELSE st
        s2 == IF cmd = MoveToCmd
                  THEN [s1 EXCEPT !.x0 = p.d[s1.j + 1], !.y0 = p.d[s1.j + 2]]
                  ELSE s1
        s3 == IF cmd = CloseCmd THEN [s2 EXCEPT !.closed = TRUE] ELSE s2
    IN [s3 EXCEPT !.j = s3.j + CmdLen(cmd), !.jcmd = s3.jcmd + 1]

RECURSIVE SplitLoop(_, _)
SplitLoop(p, st) ==
    IF st.jcmd < Len(p.cmds) THEN SplitLoop(p, SplitStep(p, st))
    ELSE IF st.j > st.i THEN SplitCut(st).ps ELSE st.ps

\* Path.Split: the windows on p's buffers, one per fragment, in order.
SplitRanges(p) ==
    SplitLoop(p, [ps |-> <<>>, closed |-> FALSE, i |-> 0, j |-> 0,
                  icmd |-> 0, jcmd |-> 0, x0 |-> 0, y0 |-> 0])

\* The fragment a window of Split shows, read as a value.
Fragment(p, r) ==
    [cmds |-> SubSeq(p.cmds, r.icmd + 1, r.jcmd), d |-> SubSeq(p.d, r.i + 1, r.j),
     x0 |-> r.x0, y0 |-> r.y0]

\* Path.Split, read as values.
Split(p) == LET rs == SplitRanges(p) IN [k \in 1..Len(rs) |-> Fragment(p, rs[k])]

\* A Translate that shifts the x radius of an ArcTo along with its end point.
ShiftXWithRadius(cmd) ==
    CASE cmd \in {MoveToCmd, LineToCmd, CloseCmd} -> {1}
      [] cmd = QuadToCmd -> {1, 3}
      [] cmd = CubeToCmd -> {1, 3, 5}
      [] cmd = ArcToCmd -> {1, 6}

\* The positions (one-based, within a command's numbers) Translate shifts by x
\* and by y.
ShiftX(cmd) ==
    CASE cmd \in {MoveToCmd, LineToCmd, CloseCmd} -> {1}
      [] cmd = QuadToCmd -> {1, 3}
      [] cmd = CubeToCmd -> {1, 3, 5}
      [] cmd = ArcToCmd -> {6}

ShiftY(cmd) ==
    CASE cmd \in {MoveToCmd, LineToCmd, CloseCmd} -> {2}
      [] cmd = QuadToCmd -> {2, 4}
      [] cmd = CubeToCmd -> {2, 4, 6}
      [] cmd = ArcToCmd -> {7}

RECURSIVE TranslateLoop(_, _, _, _, _)
\* The loop of Path.Translate over the commands from icmd (one-based) on, with
\* i the zero-based offset in d of that command.
TranslateLoop(cmds, d, icmd, i, v) ==
    IF icmd > Len(cmds) THEN d
    ELSE LET cmd == cmds[icmd]
             d2 == [k \in 1..Len(d) |->
                       IF k - i \in ShiftX(cmd) THEN d[k] + v[1]
                       ELSE IF k - i \in ShiftY(cmd) THEN d[k] + v[2]
                       ELSE d[k]]
         IN TranslateLoop(cmds, d2, icmd + 1, i + CmdLen(cmd), v)

\* Path.Translate: a copy of p, given a leading MoveTo(0,0) if it has none,
\* with every point shifted by (x, y).
Translate(p, x, y) ==
    LET c == Copy(p)
        q == IF Len(c.cmds) > 0 /\ c.cmds[1] # MoveToCmd
                 THEN [c EXCEPT !.cmds = <<MoveToCmd>> \o c.cmds, !.d = <<0, 0>> \o c.d]
                 ELSE c
    IN [q EXCEPT !.d = TranslateLoop(q.cmds, q.d, 1, 0, <<x, y>>)]

\* replaceCmd: the command at icmd (zero-based), whose numbers start at i
\* (zero-based), is cut out of p and q's commands and numbers are spliced in.
\* Returns p with the advanced icmd and i.
replaceCmd(p, icmd, i, q) ==
    LET n == CmdLen(p.cmds[icmd + 1])
    IN [p |-> [p EXCEPT
                 !.cmds = SubSeq(p.cmds, 1, icmd) \o q.cmds
                          \o SubSeq(p.cmds, icmd + 2, Len(p.cmds)),
                 !.d = SubSeq(p.d, 1, i) \o q.d \o SubSeq(p.d, i + n + 1, Len(p.d))],
        icmd |-> icmd + Len(q.cmds) - 1,
        i |-> i + Len(q.d)]

RECURSIVE LineTos(_, _)
\* A path of LineTo commands through the points pts.
LineTos(p, pts) ==
    IF pts = <<>> THEN p
    ELSE LineTos(LineTo(p, Head(pts)[1], Head(pts)[2]), Tail(pts))

\* flattenCubicBezier(start, c1, c2, end, 0, tolerance), by its contract: a path
\* of LineTo commands only, none for a zero-length curve.  The polyline has n
\* segments: it passes n - 1 times through a point of the control polygon and
\* ends at the curve's end; n = 0 is a flattener that returns nothing.
flattenCubicBezier(start, c1, c2, end, n) ==
    IF n = 0 \/ (start = end /\ c1 = start /\ c2 = start) THEN EmptyPath
    ELSE LineTos(EmptyPath, [k \in 1..n |-> IF k < n THEN c1 ELSE end])

\* One turn of the loop of FlattenBeziers; st holds p, icmd, i (zero-based) and
\* start.  The quadratic's control points are raised to cubic ones in the code
\* (Interpolate by 2/3); the flattener of the model is given the control point.
FlattenStep(st, n) ==
    LET p == st.p
        i == st.i
        cmd == p.cmds[st.icmd + 1]
        quad == cmd = QuadToCmd
        c1 == <<p.d[i + 1], p.d[i + 2]>>
        c2 == IF quad THEN c1 ELSE <<p.d[i + 3], p.d[i + 4]>>
        end == IF quad THEN <<p.d[i + 3], p.d[i + 4]>> ELSE <<p.d[i + 5], p.d[i + 6]>>
        q == flattenCubicBezier(st.start, c1, c2, end, n)
        r == replaceCmd(p, st.icmd, i, q)
    IN IF cmd \in {QuadToCmd, CubeToCmd}
           THEN IF Len(q.d) = 0
                    THEN [p |-> r.p, icmd |-> r.icmd + 1, i |-> r.i, start |-> st.start]
                    ELSE [p |-> r.p, icmd |-> r.icmd + 1, i |-> r.i,
                          start |-> <<r.p.d[r.i - 1], r.p.d[r.i]>>]
           ELSE [p |-> p, icmd |-> st.icmd + 1, i |-> i + CmdLen(cmd),
                 start |-> <<p.d[i + CmdLen(cmd) - 1], p.d[i + CmdLen(cmd)]>>]

RECURSIVE FlattenLoop(_, _)
\* The loop of FlattenBeziers from st on: the states after each turn.
FlattenLoop(st, n) ==
    IF st.icmd < Len(st.p.cmds)
        THEN LET s2 == FlattenStep(st, n) IN <<s2>> \o FlattenLoop(s2, n)
        ELSE <<>>

\* The copy FlattenBeziers works on, after every turn of its loop.
FlattenTrace(p, n) ==
    LET tr == FlattenLoop([p |-> Copy(p), icmd |-> 0, i |-> 0, start |-> <<0, 0>>], n)
    IN [k \in 1..Len(tr) |-> tr[k].p]

\* Path.FlattenBeziers: a copy of p with every QuadTo and CubeTo replaced by
\* the flattener's LineTo commands.
FlattenBeziers(p, n) ==
    LET tr == FlattenTrace(p, n) IN IF tr = <<>> THEN Copy(p) ELSE tr[Len(tr)]

\* A prevEnd that returns the last two numbers of d in the wrong order.
prevEndSwapped(d) == IF Len(d) > 1 THEN <<d[Len(d)], d[Len(d) - 1]>> ELSE <<0, 0>>

\* prevEnd: the last two numbers of d, or (0, 0).
prevEnd(d) == IF Len(d) > 1 THEN <<d[Len(d) - 1], d[Len(d)]>> ELSE <<0, 0>>

\* One turn of the loop of Reverse, for the command at icmd (zero-based).
\* st holds ip (the reversed path so far), i, icmd, closed, xStart/yStart and
\* xEnd/yEnd (as the points s and e).
ReverseStep(p, st) ==
    LET cmd == p.cmds[st.icmd + 1]
        i == st.i - CmdLen(cmd)
        pe == prevEnd(SubSeq(p.d, 1, i))
        ip == st.ip
        r == CASE cmd = CloseCmd ->
                    [ip |-> IF ~Equal(st.s[1], pe[1]) \/ ~Equal(st.s[2], pe[2])
                                THEN LineTo(ip, pe[1], pe[2]) ELSE ip,
                     closed |-> TRUE, e |-> pe]
               [] cmd = MoveToCmd ->
                    LET ip1 == IF st.closed THEN Close(ip) ELSE ip
                    IN [ip |-> IF ~Equal(pe[1], 0) \/ ~Equal(pe[2], 0)
                                   THEN MoveTo(ip1, pe[1], pe[2]) ELSE ip1,
                        closed |-> FALSE, e |-> pe]
               [] cmd = LineToCmd ->
                    IF st.closed /\ (st.icmd = 0 \/ p.cmds[st.icmd] = MoveToCmd)
                        THEN [ip |-> Close(ip), closed |-> FALSE, e |-> st.e]
                        ELSE [ip |-> LineTo(ip, pe[1], pe[2]), closed |-> st.closed,
                              e |-> pe]
               [] cmd = QuadToCmd ->
                    [ip |-> QuadTo(ip, p.d[i + 1], p.d[i + 2], pe[1], pe[2]),
                     closed |-> st.closed, e |-> pe]
               [] cmd = CubeToCmd ->
                    [ip |-> CubeTo(ip, p.d[i + 3], p.d[i + 4], p.d[i + 1], p.d[i + 2],
                                   pe[1], pe[2]),
                     closed |-> st.closed, e |-> pe]
               [] cmd = ArcToCmd ->
                    LET sweep == IF p.d[i + 5] = 0 THEN 1 ELSE 0
                    IN [ip |-> ArcTo(ip, p.d[i + 1], p.d[i + 2], p.d[i + 3],
                                     p.d[i + 4] = 1, sweep = 1, pe[1], pe[2]),
                        closed |-> st.closed, e |-> pe]
    IN [ip |-> r.ip, i |-> i, icmd |-> st.icmd - 1, closed |-> r.closed,
        s |-> r.e, e |-> r.e]

RECURSIVE ReverseLoop(_, _)
ReverseLoop(p, st) ==
    IF st.icmd >= 0 THEN ReverseLoop(p, ReverseStep(p, st))
    ELSE IF st.closed THEN Close(st.ip) ELSE st.ip

\* Path.Reverse: p in the opposite direction.
Reverse(p) ==
    IF Len(p.cmds) = 0 THEN EmptyPath
    ELSE LET e == prevEnd(p.d)
             ip == IF ~Equal(e[1], 0) \/ ~Equal(e[2], 0)
                       THEN MoveTo(EmptyPath, e[1], e[2]) ELSE EmptyPath
         IN ReverseLoop(p, [ip |-> ip, i |-> Len(p.d), icmd |-> Len(p.cmds) - 1,
                            closed |-> FALSE, s |-> e, e |-> e])

\* ---------------------------------------------------------- SVG Path Codec
\* A text is a sequence of characters, each a string of length one.
Digits == <<"0", "1", "2", "3", "4", "5", "6", "7", "8", "9">>

IsDigit(c) == \E k \in 1..10 : Digits[k] = c

DigitVal(c) == (CHOOSE k \in 1..10 : Digits[k] = c) - 1

UpperCmds == {"M", "Z", "L", "H", "V", "C", "S", "Q", "T", "A"}
LowerCmds == {"m", "z", "l", "h", "v", "c", "s", "q", "t", "a"}

\* path[i] >= 'A': the bytes at or above 'A' are the letters (and a few marks);
\* digits, sign, dot, comma and white space are below it.
AtLeastA(c) == ~IsDigit(c) /\ c \notin {" ", ",", "\n", "\r", "\t", "-", "+", "."}

\* skipCommaWhitespace(path[i:]): how many separator bytes follow position i
\* (zero-based).
RECURSIVE skipCommaWhitespace(_, _)
skipCommaWhitespace(path, i) ==
    IF i < Len(path) /\ path[i + 1] \in {" ", ",", "\n", "\r", "\t"}
        THEN 1 + skipCommaWhitespace(path, i + 1)
        ELSE 0

RECURSIVE ScanDigits(_, _, _)
\* The run of digits from position i (zero-based): its value so far and its end.
ScanDigits(path, i, acc) ==
    IF i < Len(path) /\ IsDigit(path[i + 1])
        THEN ScanDigits(path, i + 1, [v |-> 10 * acc.v + DigitVal(path[i + 1]), i |-> i + 1])
        ELSE acc

\* strconv.ParseFloat(path[i:]), on integer numerals: an optional sign and a
\* run of digits; 0 bytes are used when there is no digit.
ParseFloat(path, i) ==
    LET signed == i < Len(path) /\ path[i + 1] \in {"+", "-"}
        start == IF signed THEN i + 1 ELSE i
        r == ScanDigits(path, start, [v |-> 0, i |-> start])
    IN IF r.i = start THEN [f |-> 0, n |-> 0]
       ELSE [f |-> IF signed /\ path[i + 1] = "-" THEN 0 - r.v ELSE r.v, n |-> r.i - i]

\* parseNum(path[i:]): the number after the separators, and the bytes used.
parseNum(path, i) ==
    LET k == skipCommaWhitespace(path, i)
        r == ParseFloat(path, i + k)
    IN [f |-> r.f, n |-> k + r.n]

RECURSIVE ParseNums(_, _, _)
\* k calls of parseNum in a row from position i: the numbers and the new i.
ParseNums(path, i, k) ==
    IF k = 0 THEN [fs |-> <<>>, i |-> i]
    ELSE LET r == parseNum(path, i)
             rest == ParseNums(path, i + r.n, k - 1)
         IN [fs |-> <<r.f>> \o rest.fs, i |-> rest.i]

\* How many numbers the case of ParseSVGPath's switch for cmd reads.
NumCount(cmd) ==
    CASE cmd \in {"M", "m", "L", "l", "T", "t"} -> 2
      [] cmd \in {"H", "h", "V", "v"} -> 1
      [] cmd \in {"C", "c"} -> 6
      [] cmd \in {"S", "s", "Q", "q"} -> 4
      [] cmd \in {"A", "a"} -> 7
      [] OTHER -> 0

\* The case of ParseSVGPath's switch for cmd: the path and the control point
\* after it.  f are the numbers read, (x, y) is p.Pos() before the command.
ParseCase(st, cmd, f) ==
    LET p == st.p
        x == Pos(p)[1]
        y == Pos(p)[2]
        rel == cmd \in LowerCmds
        dx == IF rel THEN x ELSE 0
        dy == IF rel THEN y ELSE 0
        keep(q) == [p |-> q, cpx |-> st.cpx, cpy |-> st.cpy]
    IN CASE cmd \in {"M", "m"} -> keep(MoveTo(p, f[1] + dx, f[2] + dy))
         [] cmd \in {"Z", "z"} -> keep(Close(p))
         [] cmd \in {"L", "l"} -> keep(LineTo(p, f[1] + dx, f[2] + dy))
         [] cmd \in {"H", "h"} -> keep(LineTo(p, f[1] + dx, y))
         [] cmd \in {"V", "v"} -> keep(LineTo(p, x, f[1] + dy))
         [] cmd \in {"C", "c"} ->
              [p |-> CubeTo(p, f[1] + dx, f[2] + dy, f[3] + dx, f[4] + dy,
                            f[5] + dx, f[6] + dy),
               cpx |-> f[3] + dx, cpy |-> f[4] + dy]
         [] cmd \in {"S", "s"} ->
              LET refl == st.prevCmd \in {"C", "c", "S", "s"}
                  a == IF refl THEN 2 * x - st.cpx ELSE x
                  b == IF refl THEN 2 * y - st.cpy ELSE y
              IN [p |-> CubeTo(p, a, b, f[1] + dx, f[2] + dy, f[3] + dx, f[4] + dy),
                  cpx |-> f[1] + dx, cpy |-> f[2] + dy]
         [] cmd \in {"Q", "q"} ->
              [p |-> QuadTo(p, f[1] + dx, f[2] + dy, f[3] + dx, f[4] + dy),
               cpx |-> f[1] + dx, cpy |-> f[2] + dy]
         [] cmd \in {"T", "t"} ->
              LET refl == st.prevCmd \in {"Q", "q", "T", "t"}
                  a == IF refl THEN 2 * x - st.cpx ELSE x
                  b == IF refl THEN 2 * y - st.cpy ELSE y
              IN [p |-> QuadTo(p, a, b, f[1] + dx, f[2] + dy), cpx |-> a, cpy |-> b]
         [] cmd \in {"A", "a"} ->
              keep(ArcTo(p, f[1], f[2], f[3], f[4] = 1, f[5] = 1, f[6] + dx, f[7] + dy))
         [] OTHER -> keep(p)

\* The state of ParseSVGPath before its loop: the path p, the position i
\* (zero-based), prevCmd (the zero byte, written ""), the control point, and
\* how the call stands: "run" in the loop, "done" returned, "panic" aborted by
\* an index out of range.
ParseStart ==
    [p |-> EmptyPath, i |-> 0, prevCmd |-> "", cpx |-> 0, cpy |-> 0, at |-> "run"]

\* One turn of the loop of ParseSVGPath (entered with i < len(path)), and the
\* loop test after it.
ParseIter(path, st) ==
    LET i1 == st.i + skipCommaWhitespace(path, st.i)
    IN IF i1 >= Len(path) THEN [st EXCEPT !.i = i1, !.at = "panic"]
       ELSE LET letter == AtLeastA(path[i1 + 1])
                cmd == IF letter THEN path[i1 + 1] ELSE st.prevCmd
                i2 == IF letter THEN i1 + 1 ELSE i1
                ns == ParseNums(path, i2, NumCount(cmd))
                r == ParseCase(st, cmd, ns.fs)
            IN [p |-> r.p, i |-> ns.i, prevCmd |-> cmd, cpx |-> r.cpx, cpy |-> r.cpy,
                at |-> IF ns.i < Len(path) THEN "run" ELSE "done"]

RECURSIVE ParseLoop(_, _, _)
\* The loop of ParseSVGPath, followed for at most fuel turns.
ParseLoop(path, st, fuel) ==
    IF st.at # "run" \/ fuel = 0 THEN st
    ELSE ParseLoop(path, ParseIter(path, st), fuel - 1)

\* ParseSVGPath(sPath), when its loop ends within len(sPath) turns.
ParseSVGPath(path) ==
    ParseLoop(path, [ParseStart EXCEPT !.at = IF Len(path) > 0 THEN "run" ELSE "done"],
              Len(path))

RECURSIVE NatDigits(_)
NatDigits(n) ==
    IF n < 10 THEN <<Digits[n + 1]>> ELSE NatDigits(n \div 10) \o <<Digits[(n % 10) + 1]>>

\* ftos: the shortest decimal numeral of a number; of an integer, its digits.
ftos(x) == IF x < 0 THEN <<"-">> \o NatDigits(0 - x) ELSE NatDigits(x)

\* The numerals of d[i+1 .. i+n] (i zero-based), separated by single spaces.
RECURSIVE Fields(_, _, _)
Fields(d, i, n) ==
    IF n = 1 THEN ftos(d[i + 1]) ELSE ftos(d[i + 1]) \o <<" ">> \o Fields(d, i + 1, n - 1)

\* The text ToSVGPath writes for the command cmd, whose numbers start at i
\* (zero-based), when the pen is at (x, y).
CmdText(cmd, d, i, x, y) ==
    IF cmd = LineToCmd
        THEN LET nx == d[i + 1]
                 ny == d[i + 2]
             IN IF Equal(nx, x) /\ Equal(ny, y) THEN <<>>
                ELSE IF Equal(nx, x) THEN <<"V">> \o ftos(ny)
                ELSE IF Equal(ny, y) THEN <<"H">> \o ftos(nx)
                ELSE <<"L">> \o Fields(d, i, 2)
    ELSE IF cmd = CloseCmd THEN <<"z">>
    ELSE <<CmdString(cmd)>> \o Fields(d, i, CmdLen(cmd))

RECURSIVE ToSVGLoop(_, _, _, _, _)
\* The loop of ToSVGPath from the command icmd (one-based) on.
ToSVGLoop(p, icmd, i, x, y) ==
    IF icmd > Len(p.cmds) THEN <<>>
    ELSE LET cmd == p.cmds[icmd]
             n == CmdLen(cmd)
         IN CmdText(cmd, p.d, i, x, y)
            \o ToSVGLoop(p, icmd + 1, i + n, p.d[i + n - 1], p.d[i + n])

\* Path.ToSVGPath: the SVG path data of p.
ToSVGPath(p) ==
    (IF Len(p.cmds) > 0 /\ p.cmds[1] # MoveToCmd THEN <<"M", "0", " ", "0">> ELSE <<>>)
    \o ToSVGLoop(p, 1, 0, 0, 0)

\* ------------------------------------------------------- Paths in storage
\* The storage model: `mem` holds the backing arrays, `objs` the Path structs,
\* each with its two slices (windows on backing arrays) and its cached start.
\* objs[1] is the program's Path p, built from the empty path; objs[2] is the
\* Path q the last call of Copy, Translate, Reverse or FlattenBeziers
\* returned; the others hold the fragments the last call of Split returned.  `steps` counts the
\* calls made.
VARIABLES mem, objs, steps

\* One call of ParseSVGPath: the text given, the locals, and the number of
\* turns of the loop made.
VARIABLES text, ps, turns

\* The input and the results of the algebra on one path value.
VARIABLES ap, aout

vars == <<mem, objs, steps, text, ps, turns, ap, aout>>
StorageVars == <<mem, objs, steps>>
ParseVars == <<text, ps, turns>>
AlgVars == <<ap, aout>>

\* Largest number of fragments of a Split the storage model keeps.
MaxFrag == 2
\* Largest number of calls in a run of the storage model.
MaxSteps == 4

PathVars == {1, 2}
ObjIds == 1..(2 + MaxFrag)
FragIds == ObjIds \ PathVars
ArrIds == 1..(2 * (2 + MaxFrag) + 10)

\* The coordinates and points the calls are given.
Coords == 0..MaxCoord
Pts == {<<c, c>> : c \in Coords}

NilSlice == [a |-> 0, off |-> 0, len |-> 0]
NoObj == [live |-> FALSE, cmds |-> NilSlice, d |-> NilSlice, x0 |-> 0, y0 |-> 0]
NewPath == [NoObj EXCEPT !.live = TRUE]

\* cap(s) and the elements of s.
Cap(m, s) == IF s.a = 0 THEN 0 ELSE Len(m[s.a]) - s.off
View(m, s) == IF s.a = 0 THEN <<>> ELSE SubSeq(m[s.a], s.off + 1, s.off + s.len)

\* The Path a struct shows: the elements of its slices and its cached start.
Deref(m, o) == [cmds |-> View(m, o.cmds), d |-> View(m, o.d), x0 |-> o.x0, y0 |-> o.y0]

Live(os) == {o \in ObjIds : os[o].live}

\* A backing array no slice refers to is free; the allocator hands out one.
FreeArr(m) == CHOOSE a \in ArrIds : m[a] = <<>> /\ \A b \in ArrIds : m[b] = <<>> => a <= b

\* Go's append(s, xs...): in place when the capacity of s has room for xs
\* (the cells after s are overwritten, whoever else sees them), else into a
\* newly allocated array of at least the needed capacity.
SliceAppend(m, s, xs, spare) ==
    IF xs = <<>> THEN [m |-> m, s |-> s]
    ELSE IF s.len + Len(xs) <= Cap(m, s)
        THEN [m |-> [m EXCEPT ![s.a] =
                        [k \in 1..Len(@) |->
                            IF k > s.off + s.len /\ k <= s.off + s.len + Len(xs)
                                THEN xs[k - s.off - s.len] ELSE @[k]]],
              s |-> [s EXCEPT !.len = @ + Len(xs)]]
        ELSE [m |-> [m EXCEPT ![FreeArr(m)] =
                        View(m, s) \o xs \o [k \in 1..spare |-> 0]],
              s |-> [a |-> FreeArr(m), off |-> 0, len |-> s.len + Len(xs)]]

\* A builder call on the struct h.o in the storage h.m, where p2 is the Path
\* the call makes of Deref(h.m, h.o): the new command and its numbers are
\* appended to the two slices, and the cached start is that of p2.
Grow(h, p2, spare) ==
    LET o == h.o
        r1 == SliceAppend(h.m, o.cmds, SubSeq(p2.cmds, o.cmds.len + 1, Len(p2.cmds)), spare)
        r2 == SliceAppend(r1.m, o.d, SubSeq(p2.d, o.d.len + 1, Len(p2.d)), spare)
    IN [m |-> r2.m,
        o |-> [live |-> TRUE, cmds |-> r1.s, d |-> r2.s, x0 |-> p2.x0, y0 |-> p2.y0]]

Val(h) == Deref(h.m, h.o)

\* A new Path struct holding the value v, in arrays of its own.
Fresh(m, v, spare) == Grow([m |-> m, o |-> NewPath], v, spare)

\* The arrays the structs os refer to, in the order of the structs' fields.
Refs(os) ==
    [k \in 1..(2 * Cardinality(ObjIds)) |->
        IF k % 2 = 1 THEN os[(k + 1) \div 2].cmds.a ELSE os[k \div 2].d.a]

RECURSIVE Distinct(_, _)
\* The arrays of refs that are not in seen, each once, in order.
Distinct(refs, seen) ==
    IF refs = <<>> THEN <<>>
    ELSE IF Head(refs) = 0 \/ Head(refs) \in seen THEN Distinct(Tail(refs), seen)
    ELSE <<Head(refs)>> \o Distinct(Tail(refs), seen \cup {Head(refs)})

\* The garbage collector, and the naming of arrays: an array no struct refers
\* to is freed, and the arrays in use are named 1, 2, ... in the order of the
\* structs that refer to them (an address has no meaning of its own).
NewName(order, a) ==
    IF a = 0 THEN 0 ELSE CHOOSE k \in 1..Len(order) : order[k] = a

RenamedBy(os, order) ==
    [o \in ObjIds |-> [os[o] EXCEPT !.cmds = [@ EXCEPT !.a = NewName(order, @)],
                                    !.d = [@ EXCEPT !.a = NewName(order, @)]]]

Renamed(os) == RenamedBy(os, Distinct(Refs(os), {}))

CollectBy(m, order) ==
    [a \in ArrIds |-> IF a <= Len(order) THEN m[order[a]] ELSE <<>>]

Collect(m, os) == CollectBy(m, Distinct(Refs(os), {}))

\* The index arithmetic of the loops over a path stays within d.
InStep(v) == SumLen(v.cmds) <= Len(v.d)

\* The storage after a call that left the struct h.o in place of objs[o].
Store(o, h) ==
    /\ objs' = Renamed([objs EXCEPT ![o] = h.o])
    /\ mem' = Collect(h.m, [objs EXCEPT ![o] = h.o])
    /\ steps' = steps + 1
    /\ UNCHANGED <<ParseVars, AlgVars>>

Here(o) == [m |-> mem, o |-> objs[o]]

CanCall(o, n) ==
    /\ o \in Live(objs)
    /\ steps < MaxSteps
    /\ objs[o].cmds.len + n <= MaxCmds

ObjMoveTo(o) ==
    /\ CanCall(o, 1)
    /\ \E pt \in Pts, spare \in 0..MaxSpare :
          Store(o, Grow(Here(o), MoveTo(Deref(mem, objs[o]), pt[1], pt[2]), spare))

ObjLineTo(o) ==
    /\ CanCall(o, 1)
    /\ \E pt \in Pts, spare \in 0..MaxSpare :
          Store(o, Grow(Here(o), LineTo(Deref(mem, objs[o]), pt[1], pt[2]), spare))

ObjClose(o) ==
    /\ CanCall(o, 1)
    /\ \E spare \in 0..MaxSpare :
          Store(o, Grow(Here(o), Close(Deref(mem, objs[o])), spare))

\* The control points, radii and offsets the calls of the storage model are
\* given.
Ctl1 == <<0, MaxCoord>>
Ctl2 == <<MaxCoord, 0>>
Offs == {<<MaxCoord, 0>>}
CurveEnds == {<<MaxCoord, MaxCoord>>}

ObjQuadTo(o) ==
    /\ CanCall(o, 1)
    /\ \E pt \in CurveEnds, spare \in 0..MaxSpare :
          Store(o, Grow(Here(o), QuadTo(Deref(mem, objs[o]), Ctl1[1], Ctl1[2],
                                        pt[1], pt[2]), spare))

ObjCubeTo(o) ==
    /\ CanCall(o, 1)
    /\ \E pt \in CurveEnds, spare \in 0..MaxSpare :
          Store(o, Grow(Here(o), CubeTo(Deref(mem, objs[o]), Ctl1[1], Ctl1[2],
                                        Ctl2[1], Ctl2[2], pt[1], pt[2]), spare))

ObjArcTo(o) ==
    /\ CanCall(o, 1)
    /\ \E pt \in CurveEnds, spare \in 0..MaxSpare :
          Store(o, Grow(Here(o), ArcTo(Deref(mem, objs[o]), MaxCoord, MaxCoord, 0,
                                       FALSE, TRUE, pt[1], pt[2]), spare))

\* Path.Rect on a struct in storage: its five builder calls, one after the
\* other.
StoredRect(h, x, y, w, ht, spare) ==
    LET h1 == Grow(h, MoveTo(Val(h), x, y), spare)
        h2 == Grow(h1, LineTo(Val(h1), x + w, y), spare)
        h3 == Grow(h2, LineTo(Val(h2), x + w, y + ht), spare)
        h4 == Grow(h3, LineTo(Val(h3), x, y + ht), spare)
    IN Grow(h4, Close(Val(h4)), spare)

\* Path.Ellipse on a struct in storage: its four builder calls.
StoredEllipse(h, x, y, rx, ry, spare) ==
    LET h1 == Grow(h, MoveTo(Val(h), x + rx, y), spare)
        h2 == Grow(h1, ArcTo(Val(h1), rx, ry, 0, FALSE, FALSE, x - rx, y), spare)
        h3 == Grow(h2, ArcTo(Val(h2), rx, ry, 0, FALSE, FALSE, x + rx, y), spare)
    IN Grow(h3, Close(Val(h3)), spare)

ObjRect(o) ==
    /\ CanCall(o, 5)
    /\ \E pt \in Pts, spare \in 0..MaxSpare :
          Store(o, StoredRect(Here(o), pt[1], pt[2], MaxCoord, MaxCoord, spare))

ObjEllipse(o) ==
    /\ CanCall(o, 4)
    /\ \E pt \in Pts, spare \in 0..MaxSpare :
          Store(o, StoredEllipse(Here(o), pt[1], pt[2], MaxCoord, MaxCoord, spare))

\* dst = src.Op(): the call returns a new Path of value v, which the variable
\* dst then names.
Assign(src, dst, v, spare) ==
    /\ src \in Live(objs)
    /\ dst = 2
    /\ steps < MaxSteps
    /\ Len(v.cmds) <= MaxCmds
    /\ Store(dst, Fresh(mem, v, spare))

ObjCopy(src, dst) ==
    \E spare \in 0..MaxSpare : Assign(src, dst, Copy(Deref(mem, objs[src])), spare)

\* q = p.Translate(v[1], v[2]) with p the struct src and q the variable dst.
ObjTranslateBy(src, dst, v) ==
    /\ InStep(Deref(mem, objs[src]))
    /\ \E spare \in 0..MaxSpare :
          Assign(src, dst, Translate(Deref(mem, objs[src]), v[1], v[2]), spare)

ObjTranslate(src, dst) == \E v \in Offs : ObjTranslateBy(src, dst, v)

ObjReverse(src, dst) ==
    /\ InStep(Deref(mem, objs[src]))
    /\ \E spare \in 0..MaxSpare :
          Assign(src, dst, Reverse(Deref(mem, objs[src])), spare)

ObjFlattenBeziers(src, dst) ==
    /\ InStep(Deref(mem, objs[src]))
    /\ \E n \in 0..MaxFlat, spare \in 0..MaxSpare :
          Assign(src, dst, FlattenBeziers(Deref(mem, objs[src]), n), spare)

\* p.Append(q) on structs in storage: q's slices lose the leading MoveTo when
\* it is merged, p's slices are appended to, p's cached start becomes q's.
ObjAppend(p, q) ==
    /\ p \in Live(objs) /\ q \in Live(objs) /\ p # q
    /\ steps < MaxSteps
    /\ LET vp == Deref(mem, objs[p])
           vq == Deref(mem, objs[q])
       IN /\ Len(vp.cmds) > 0 /\ Len(vq.cmds) > 0 => Len(vp.d) >= 2 /\ Len(vq.d) >= 2
          /\ Len(vp.cmds) + Len(vq.cmds) <= MaxCmds
          /\ IF Len(vq.cmds) = 0
                THEN /\ steps' = steps + 1
                     /\ UNCHANGED <<mem, objs, ParseVars, AlgVars>>
                ELSE \E spare \in 0..MaxSpare :
                        LET merge == AppendMerges(vp, vq)
                            q2 == IF merge
                                      THEN [objs[q] EXCEPT
                                              !.cmds = [@ EXCEPT !.off = @ + 1, !.len = @ - 1],
                                              !.d = [@ EXCEPT !.off = @ + 2, !.len = @ - 2]]
                                      ELSE objs[q]
                            h == Grow(Here(p), PathAppend(vp, vq), spare)
                        IN /\ objs' = Renamed([objs EXCEPT ![p] = h.o, ![q] = q2])
                           /\ mem' = Collect(h.m, [objs EXCEPT ![p] = h.o, ![q] = q2])
                           /\ steps' = steps + 1
                           /\ UNCHANGED <<ParseVars, AlgVars>>

\* ps = src.Split(): every fragment is a struct whose slices are windows on
\* src's own backing arrays, from the fragment's first element on.
ObjSplit(src) ==
    /\ src \in Live(objs)
    /\ steps < MaxSteps
    /\ InStep(Deref(mem, objs[src]))
    /\ LET o == objs[src]
           rs == SplitRanges(Deref(mem, o))
           frag(r) == [live |-> TRUE,
                       cmds |-> [a |-> o.cmds.a, off |-> o.cmds.off + r.icmd,
                                 len |-> r.jcmd - r.icmd],
                       d |-> [a |-> o.d.a, off |-> o.d.off + r.i, len |-> r.j - r.i],
                       x0 |-> r.x0, y0 |-> r.y0]
       IN /\ Len(rs) <= MaxFrag
          /\ LET os == [k \in ObjIds |->
                           IF k \in PathVars THEN objs[k]
                           ELSE IF k - 2 <= Len(rs) THEN frag(rs[k - 2]) ELSE NoObj]
             IN objs' = Renamed(os) /\ mem' = Collect(mem, os)
          /\ steps' = steps + 1
          /\ UNCHANGED <<ParseVars, AlgVars>>

\* The program starts with the empty Path p.
StorageInit ==
    /\ mem = [a \in ArrIds |-> <<>>]
    /\ objs = [o \in ObjIds |-> IF o = 1 THEN NewPath ELSE NoObj]
    /\ steps = 0

ParseIdle ==
    /\ text = <<>>
    /\ ps = [ParseStart EXCEPT !.at = "done"]
    /\ turns = 0

AlgIdle ==
    /\ ap = EmptyPath
    /\ aout = [op |-> "none"]

Init == StorageInit /\ ParseIdle /\ AlgIdle

Next ==
    \E o \in ObjIds :
        \/ ObjMoveTo(o)
        \/ ObjLineTo(o)
        \/ ObjClose(o)
        \/ ObjQuadTo(o)
        \/ ObjCubeTo(o)
        \/ ObjArcTo(o)
        \/ ObjRect(o)
        \/ ObjEllipse(o)
        \/ ObjSplit(o)
        \/ ObjCopy(o, 2)
        \/ ObjTranslate(o, 2)
        \/ ObjReverse(o, 2)
        \/ ObjFlattenBeziers(o, 2)
        \/ \E q \in ObjIds : ObjAppend(o, q)

Spec == Init /\ [][Next]_vars

\* ------------------------------------------------- Properties of storage
\* The Paths of the storage model, as values.
Stored == {Deref(mem, objs[o]) : o \in Live(objs)}

\* sum(Len(cmd)) = len(d).
ArityOK(v) == SumLen(v.cmds) = Len(v.d)

\* C1 (as claimed): every Path reached by builder calls and algebra operations
\* has sum(Len(cmd)) = len(d), and the copy FlattenBeziers works on has it
\* again after every splice, whatever LineTo commands the flattener returns.
C1_ArityInvariant ==
    \A v \in Stored :
        /\ ArityOK(v)
        /\ \A n \in 0..MaxFlat :
              \A k \in 1..Len(FlattenTrace(v, n)) : ArityOK(FlattenTrace(v, n)[k])

RECURSIVE LastMoveTo(_, _, _, _)
\* The point of the last MoveTo among the commands from icmd (one-based) on,
\* or at when there is none; i is the zero-based offset of command icmd in d.
LastMoveTo(v, icmd, i, at) ==
    IF icmd > Len(v.cmds) THEN at
    ELSE LastMoveTo(v, icmd + 1, i + CmdLen(v.cmds[icmd]),
                    IF v.cmds[icmd] = MoveToCmd THEN <<v.d[i + 1], v.d[i + 2]>> ELSE at)

\* C2 (as claimed): the cached start of every reachable Path is the point of
\* the last MoveTo among its own commands, or (0,0) when it has none.
C2_StartCache ==
    \A v \in Stored : InStep(v) => Start(v) = LastMoveTo(v, 1, 0, <<0, 0>>)

RECURSIVE Segments(_, _, _)
\* The commands of v from icmd (one-based) on, each with its numbers.
Segments(v, icmd, i) ==
    IF icmd > Len(v.cmds) THEN <<>>
    ELSE LET n == CmdLen(v.cmds[icmd])
         IN <<[cmd |-> v.cmds[icmd], args |-> SubSeq(v.d, i + 1, i + n)]>>
            \o Segments(v, icmd + 1, i + n)

\* The end point of a command with its numbers.
EndOf(seg) == <<seg.args[Len(seg.args) - 1], seg.args[Len(seg.args)]>>

RECURSIVE DropZeroLines(_, _)
\* segs without the LineTo commands that end where they start; at is the
\* pen's position before segs.
DropZeroLines(segs, at) ==
    IF segs = <<>> THEN <<>>
    ELSE IF Head(segs).cmd = LineToCmd /\ EndOf(Head(segs)) = at
        THEN DropZeroLines(Tail(segs), at)
        ELSE <<Head(segs)>> \o DropZeroLines(Tail(segs), EndOf(Head(segs)))

\* The geometry of v: its commands with their numbers, a missing leading
\* MoveTo read as MoveTo(0,0), zero-length LineTo edges dropped.
Geometry(v) ==
    LET segs == Segments(v, 1, 0)
        lead == IF segs # <<>> /\ segs[1].cmd # MoveToCmd
                    THEN <<[cmd |-> MoveToCmd, args |-> <<0, 0>>]>> ELSE <<>>
    IN DropZeroLines(lead \o segs, <<0, 0>>)

\* ParseSVGPath(ToSVGPath(v)) returns and has the geometry of v.
RoundTrips(v) ==
    LET r == ParseSVGPath(ToSVGPath(v))
    IN r.at = "done" /\ Geometry(r.p) = Geometry(v)

\* C3 (as claimed): for every reachable Path p, ParseSVGPath(ToSVGPath(p)) has
\* the same command kinds, parameters and end points as p, the payload of
\* every Close included.
C3_RoundTrip == \A v \in Stored : InStep(v) => RoundTrips(v)

\* A builder call (MoveTo, LineTo, QuadTo, CubeTo, ArcTo, Close) on objs[o].
BuilderCall(o) ==
    \/ ObjMoveTo(o)
    \/ ObjLineTo(o)
    \/ ObjQuadTo(o)
    \/ ObjCubeTo(o)
    \/ ObjArcTo(o)
    \/ ObjClose(o)

\* C8 (as claimed): a builder call on one Path leaves the commands and numbers
\* of every other Path unchanged.
C8_BufferOwnership ==
    [][\A o \in ObjIds :
          BuilderCall(o) =>
              \A k \in Live(objs) \ {o} :
                  /\ View(mem', objs'[k].cmds) = View(mem, objs[k].cmds)
                  /\ View(mem', objs'[k].d) = View(mem, objs[k].d)]_vars

\* ------------------------------------------------------------ The parser
\* The characters of the input texts of the parser: command letters, a letter
\* that is no command, a digit, a separator.
ParseAlphabet == {"M", "L", "z", "X", "1", " "}

RECURSIVE TextsOfLen(_)
TextsOfLen(n) ==
    IF n = 0 THEN {<<>>}
    ELSE {Append(t, c) : t \in TextsOfLen(n - 1), c \in ParseAlphabet}

\* "M0 0L10 0L10 10z"
ReverseScenario ==
    <<"M", "0", " ", "0", "L", "1", "0", " ", "0", "L", "1", "0", " ", "1", "0", "z">>

\* "C10 10 20 10 20 20 S30 30 40 20"
ShorthandScenario ==
    <<"C", "1", "0", " ", "1", "0", " ", "2", "0", " ", "1", "0", " ", "2", "0", " ",
      "2", "0", " ", "S", "3", "0", " ", "3", "0", " ", "4", "0", " ", "2", "0">>

Texts ==
    UNION {TextsOfLen(n) : n \in 0..MaxText} \cup {ReverseScenario, ShorthandScenario}

\* ParseSVGPath is called with a text.
ParseInit ==
    /\ text \in Texts
    /\ ps = [ParseStart EXCEPT !.at = IF Len(text) > 0 THEN "run" ELSE "done"]
    /\ turns = 0

\* One turn of the loop of ParseSVGPath.
ParseTurn ==
    /\ ps.at = "run"
    /\ turns < Len(text) + MaxOver
    /\ ps' = ParseIter(text, ps)
    /\ turns' = turns + 1
    /\ UNCHANGED <<text, StorageVars, AlgVars>>

InitParse == StorageInit /\ ParseInit /\ AlgIdle

SpecParse == InitParse /\ [][ParseTurn]_vars

\* C6 (as claimed): on no text does ParseSVGPath fail with an index out of
\* range.
C6_ParserNeverCrashes == ps.at # "panic"

\* C7 (as claimed): the scan position strictly advances on every turn of the
\* loop of ParseSVGPath, so the loop ends within len(text) turns.
C7_ParserAdvances == [][ParseTurn => ps'.i > ps.i]_vars

\* "M10 10L10 0L0 0z"
ClaimedReversed ==
    <<"M", "1", "0", " ", "1", "0", "L", "1", "0", " ", "0", "L", "0", " ", "0", "z">>

\* "M0 0L10 10V0z"
ActualReversed == <<"M", "0", " ", "0", "L", "1", "0", " ", "1", "0", "V", "0", "z">>

ScenarioParsed == text = ReverseScenario /\ ps.at = "done"

\* C5 (as claimed): parsing "M0 0L10 0L10 10z", reversing and serializing
\* yields "M10 10L10 0L0 0z".
C5_ScenarioAsClaimed == ScenarioParsed => ToSVGPath(Reverse(ps.p)) = ClaimedReversed

\* C5 (amended): parsing "M0 0L10 0L10 10z", reversing and serializing yields
\* "M0 0L10 10V0z": the reversed path is LineTo(10,10), LineTo(10,0), Close,
\* drawn from the implicit start (0,0) and closing back to it.
C5_ReverseScenario ==
    ScenarioParsed =>
        /\ Reverse(ps.p) = Close(LineTo(LineTo(EmptyPath, 10, 10), 10, 0))
        /\ ToSVGPath(Reverse(ps.p)) = ActualReversed

\* The scenario's text has been parsed to its end.
C5_Witness == ScenarioParsed /\ Len(ps.p.cmds) = 4

\* ------------------------------------------------ The algebra on one path
\* A path ap is built from the empty path by builder calls; then Split or
\* Reverse is applied to it, and aout holds what the call returned.
AlgCanBuild == aout.op = "none" /\ Len(ap.cmds) < MaxBuild

AlgBuilt(p) ==
    /\ AlgCanBuild
    /\ ap' = p
    /\ UNCHANGED <<aout, StorageVars, ParseVars>>

AlgMoveTo == \E pt \in Pts : AlgBuilt(MoveTo(ap, pt[1], pt[2]))

AlgLineTo == \E pt \in Pts : AlgBuilt(LineTo(ap, pt[1], pt[2]))

AlgQuadTo == \E pt \in CurveEnds : AlgBuilt(QuadTo(ap, Ctl1[1], Ctl1[2], pt[1], pt[2]))

AlgCubeTo ==
    \E pt \in CurveEnds :
        AlgBuilt(CubeTo(ap, Ctl1[1], Ctl1[2], Ctl2[1], Ctl2[2], pt[1], pt[2]))

AlgArcTo ==
    \E pt \in CurveEnds, sweep \in BOOLEAN :
        AlgBuilt(ArcTo(ap, MaxCoord, MaxCoord, 0, FALSE, sweep, pt[1], pt[2]))

AlgClose == AlgBuilt(Close(ap))

AlgSplit ==
    /\ aout.op = "none"
    /\ aout' = [op |-> "Split", frags |-> Split(ap)]
    /\ UNCHANGED <<ap, StorageVars, ParseVars>>

AlgReverse ==
    /\ aout.op = "none"
    /\ aout' = [op |-> "Reverse", r |-> Reverse(ap), rr |-> Reverse(Reverse(ap))]
    /\ UNCHANGED <<ap, StorageVars, ParseVars>>

InitAlg == StorageInit /\ ParseIdle /\ AlgIdle

NextAlg ==
    \/ AlgMoveTo
    \/ AlgLineTo
    \/ AlgQuadTo
    \/ AlgCubeTo
    \/ AlgArcTo
    \/ AlgClose
    \/ AlgSplit
    \/ AlgReverse

SpecAlg == InitAlg /\ [][NextAlg]_vars

RECURSIVE Subpaths(_, _, _, _)
\* The subpaths of the commands segs, drawn with the pen at `at`: each with
\* its start point, its segments (command and numbers) and whether a Close
\* ends it.  cur is the subpath being drawn, open tells whether a command has
\* begun it.  A MoveTo begins a subpath at its point; a drawing command after
\* a Close, or at the very beginning, begins one where the pen is.
Subpaths(segs, at, cur, open) ==
    IF segs = <<>> THEN IF open /\ cur.segs # <<>> THEN <<cur>> ELSE <<>>
    ELSE LET s == Head(segs)
             done == IF open /\ cur.segs # <<>> THEN <<cur>> ELSE <<>>
             base == IF open THEN cur ELSE [start |-> at, segs |-> <<>>, closed |-> FALSE]
         IN IF s.cmd = MoveToCmd
                THEN done \o Subpaths(Tail(segs), EndOf(s),
                                      [start |-> EndOf(s), segs |-> <<>>, closed |-> FALSE],
                                      TRUE)
            ELSE IF s.cmd = CloseCmd
                THEN <<[base EXCEPT !.segs = Append(@, s), !.closed = TRUE]>>
                     \o Subpaths(Tail(segs), EndOf(s), base, FALSE)
            ELSE Subpaths(Tail(segs), EndOf(s), [base EXCEPT !.segs = Append(@, s)], TRUE)

\* The geometry of v by subpaths.
SubpathsOf(v) ==
    Subpaths(Segments(v, 1, 0), <<0, 0>>, [start |-> <<0, 0>>, segs |-> <<>>,
                                          closed |-> FALSE], FALSE)

RECURSIVE NoZeroEdges(_, _)
\* No command of segs other than MoveTo ends where it starts.
NoZeroEdges(segs, at) ==
    IF segs = <<>> THEN TRUE
    ELSE /\ Head(segs).cmd # MoveToCmd => EndOf(Head(segs)) # at
         /\ NoZeroEdges(Tail(segs), EndOf(Head(segs)))

\* C4 (as claimed): for a builder-constructed path p with no zero-length edge,
\* Reverse(Reverse(p)) has the subpaths of p, in order, each with the same
\* segments and the same closed/open status.
C4_ReverseInvolution ==
    (aout.op = "Reverse" /\ NoZeroEdges(Segments(ap, 1, 0), <<0, 0>>))
        => SubpathsOf(aout.rr) = SubpathsOf(ap)

RECURSIVE Rejoined(_)
\* The commands and numbers of the fragments frags, concatenated in order.
Rejoined(frags) ==
    IF frags = <<>> THEN [cmds |-> <<>>, d |-> <<>>]
    ELSE LET rest == Rejoined(Tail(frags))
         IN [cmds |-> Head(frags).cmds \o rest.cmds, d |-> Head(frags).d \o rest.d]

\* C9: the fragments of Split(p), concatenated in order, give back p's
\* commands and numbers; no fragment is empty; in a fragment a MoveTo is the
\* first command or absent, a Close the last or absent.
C9_SplitRejoin ==
    aout.op = "Split" =>
        /\ Rejoined(aout.frags).cmds = ap.cmds
        /\ Rejoined(aout.frags).d = ap.d
        /\ \A k \in 1..Len(aout.frags) :
              LET f == aout.frags[k]
              IN /\ Len(f.cmds) > 0
                 /\ ArityOK(f)
                 /\ \A j \in 1..Len(f.cmds) :
                       /\ f.cmds[j] = MoveToCmd => j = 1
                       /\ f.cmds[j] = CloseCmd => j = Len(f.cmds)

\* Split has cut a path after a Close that further drawing commands follow,
\* and at a MoveTo.
C9_Witness ==
    /\ aout.op = "Split"
    /\ Len(aout.frags) >= 3
    /\ \E k \in 1..(Len(aout.frags) - 1) :
          /\ aout.frags[k].cmds[Len(aout.frags[k].cmds)] = CloseCmd
          /\ aout.frags[k + 1].cmds[1] # MoveToCmd
    /\ \E k \in 2..Len(aout.frags) : aout.frags[k].cmds[1] = MoveToCmd

\* ------------------------------------------------------------- Translate
\* The offsets the composition of Translate is checked with.
ComposeOffs == {<<MaxCoord, 0>>, <<0, MaxCoord>>, <<0 - MaxCoord, MaxCoord>>}

\* p as Translate sees it before shifting: with a leading MoveTo(0,0) when it
\* has commands and does not start with MoveTo.
Anchored(p) == Translate(p, 0, 0)

\* t has the commands of Anchored(p), and at every ArcTo the radii, rotation
\* and flags of p and the end point of p shifted by v.
ArcsKept(p, t, v) ==
    LET a == Anchored(p)
    IN /\ t.cmds = a.cmds
       /\ Len(t.d) = Len(a.d)
       /\ \A icmd \in 1..Len(a.cmds) :
             a.cmds[icmd] = ArcToCmd =>
                 LET i == SumLen(SubSeq(a.cmds, 1, icmd - 1))
                 IN /\ \A k \in 1..5 : t.d[i + k] = a.d[i + k]
                    /\ t.d[i + 6] = a.d[i + 6] + v[1]
                    /\ t.d[i + 7] = a.d[i + 7] + v[2]

\* Translate twice gives the commands and numbers of Translate once by the
\* sum of the offsets.
Composes(p, v, w) ==
    LET two == Translate(Translate(p, v[1], v[2]), w[1], w[2])
        sum == Translate(p, v[1] + w[1], v[2] + w[2])
    IN two.cmds = sum.cmds /\ two.d = sum.d

\* C10: a call q = p.Translate(x, y) leaves in q the commands and numbers of
\* Translate(p, x, y) and leaves p and every other Path as it was; for all
\* offsets, Translate twice equals Translate by the sum, and an ArcTo keeps
\* its radii, rotation and flags while its end point is shifted.
C10_TranslateComposition ==
    [][\A src \in ObjIds, v \in Offs :
          ObjTranslateBy(src, 2, v) =>
              LET p == Deref(mem, objs[src])
                  q == Deref(mem', objs'[2])
                  t == Translate(p, v[1], v[2])
              IN /\ q.cmds = t.cmds
                 /\ q.d = t.d
                 /\ ArcsKept(p, q, v)
                 /\ src # 2 => Deref(mem', objs'[src]) = p
                 /\ \A k \in Live(objs) \ {2} : Deref(mem', objs'[k]) = Deref(mem, objs[k])
                 /\ \A a \in ComposeOffs :
                       /\ ArcsKept(p, Translate(p, a[1], a[2]), a)
                       /\ \A c \in ComposeOffs : Composes(p, a, c)]_vars

\* q holds the translation of a Path p that has an ArcTo and no leading
\* MoveTo, and p still has its value.
C10_Witness ==
    /\ objs[1].live /\ objs[2].live
    /\ LET p == Deref(mem, objs[1])
           q == Deref(mem, objs[2])
       IN /\ ArityOK(p)
          /\ Len(p.cmds) > 0
          /\ p.cmds[1] = ArcToCmd
          /\ \E v \in Offs :
                /\ q.cmds = <<MoveToCmd>> \o p.cmds
                /\ q.d = Translate(p, v[1], v[2]).d
                /\ q.d[1] = v[1] /\ q.d[2] = v[2]

\* ------------------------------------------------- Closedness under Reverse
\* The fragment f ends with a Close.
EndsClosed(f) == Len(f.cmds) > 0 /\ f.cmds[Len(f.cmds)] = CloseCmd

\* C11 (as claimed): with subpaths taken as the fragments of Split, Reverse(p)
\* has as many subpaths as p, and its k-th subpath ends with Close exactly
\* when the k-th subpath from the end of p does.
C11_ReverseClosedness ==
    aout.op = "Reverse" =>
        LET fp == Split(ap)
            fr == Split(aout.r)
        IN /\ Len(fr) = Len(fp)
           /\ \A k \in 1..Len(fr) :
                 k <= Len(fp) => (EndsClosed(fr[k]) <=> EndsClosed(fp[Len(fp) - k + 1]))

====
